---- MODULE Spec2Model ----
(***************************************************************************)
(* The asynchronous text-to-speech job lifecycle of the edge-tts and       *)
(* espeak-tts services: the Redis job store with its expiry, the on-disk   *)
(* audio cache, the background job executor and the four job endpoints     *)
(* (create, status, segment audio, delete).                                *)
(*                                                                         *)
(* Granularity.  The endpoints are coroutines on one event loop, so a      *)
(* handler is atomic between two awaits: every await of a store command is *)
(* a step of its own, and the synchronous code that follows it belongs to  *)
(* the step that resumes the handler.  The executor runs in a worker       *)
(* thread with its own loop and connection (process_job_sync), so its      *)
(* steps interleave freely with the handlers'.                             *)
(*                                                                         *)
(* Strings are sequences of tokens, so that formatting (segment ids, cache *)
(* paths) and str.strip() are computed, not assumed.                       *)
(*                                                                         *)
(* Left out of a job record: created_at, audio_url, word_timings and       *)
(* prefer_phonemes, which no endpoint and no executor step reads back.     *)
(* A backend call is one step whose outcome is any run the engine can      *)
(* make (EdgeRuns, EspeakRuns); a store command either takes effect or     *)
(* raises without effect.                                                  *)
(*                                                                         *)
(* tasks and calls count what has happened (background tasks added,        *)
(* backend calls made); called, fault, absent_write and conn record it (the*)
(* arguments of the backend call, a store command that raised in a         *)
(* handler, what an executor did at a write to a key that was gone, the    *)
(* store connections an executor opened and closed); no step of the        *)
(* program reads them.                                                     *)
(*                                                                         *)
(* Besides the whole service (Spec, FairSpec) there are four narrower      *)
(* specifications: PairSpec runs two jobs side by side, AudioSpec lets     *)
(* segment audio be asked for while two jobs exist, VoiceSpec varies the   *)
(* voice fields of the Create request, and BackendSpec applies the backend *)
(* wrappers (edge, espeak, the GPU worker's Worker.process and the Bark    *)
(* worker's do_POST) to every input and engine outcome of the bounded sets.*)
(***************************************************************************)
EXTENDS Integers, Sequences, FiniteSets, TLC

(* ------------------------------ bounds --------------------------------- *)
\* number of job ids generate_job_id hands out
NumJobs == 1
\* longest request text, in characters
MaxTextLen == 1
\* largest audio chunk / output file, in bytes
MaxAudioLen == 1
\* most audio chunks the edge stream yields
MaxChunks == 1
\* Delete requests issued per job id
MaxDeleteCalls == 2
\* largest segment index a client asks for
MaxSegIndex == 0
\* seconds that pass in one step of the clock
TickStep == 1800
\* job ids generate_job_id hands out where two jobs run side by side
NumPairJobs == 2
\* the workers' maximum text length (TTS_MAX_LENGTH), scaled down
MaxWorkerTextLen == 1

(* ------------------------- program constants --------------------------- *)
JOB_EXPIRY_SECONDS == 3600
DEFAULT_VOICE == "default-voice"
CACHE_DIR == "/data/cache/"

VARIABLES
    svc,      \* which service this is: "edge" or "espeak"
    store,    \* Redis: job id -> job record, or Absent
    ttl,      \* Redis: job id -> remaining seconds of the key
    age,      \* seconds since the key was last written (0 when absent)
    files,    \* cache directory: path -> file size, or NoFile
    pc,       \* executor of each job: where it is in process_job_with_new_redis
    jd,       \* executor of each job: its local job_data
    del,      \* Delete requests: per job id and call, position and local job_data
    gsa,      \* segment-audio request in flight per job id
    written,  \* last status written under each job id (kept when the key goes)
    tasks,    \* background tasks create_job has added for each job id
    calls,    \* backend calls the executor of each job has made
    targs,    \* the arguments create_job gave the background task of each job
    called,   \* the arguments of the backend call the executor of each job made
    req,      \* the voice fields of the Create request handled in this step
    fault,    \* the store command of a request handler that raised in this step
    backend,  \* a backend wrapper called on its own: wrapper, inputs, what came back
    conn,     \* executor of each job: store connections opened and closed
    absent_write, \* what each executor did when its record was gone at a write
    resp      \* the response of the request that completed in this step

vars ==
    <<svc, store, ttl, age, files, pc, jd, del, gsa, written, tasks, calls, targs, called,
      req, fault, backend, absent_write, conn, resp>>

(* ------------------------------ strings -------------------------------- *)
Chars == {" ", "a"}
Whitespace == {" "}

RECURSIVE SeqsUpTo(_, _)
SeqsUpTo(S, n) ==
    IF n = 0 THEN {<<>>}
    ELSE LET shorter == SeqsUpTo(S, n - 1)
         IN  shorter \cup {Append(s, x) : s \in {t \in shorter : Len(t) = n - 1}, x \in S}

Texts == SeqsUpTo(Chars, MaxTextLen)

RECURSIVE lstrip(_)
lstrip(t) == IF t # <<>> /\ Head(t) \in Whitespace THEN lstrip(Tail(t)) ELSE t

RECURSIVE rstrip(_)
rstrip(t) ==
    IF t # <<>> /\ t[Len(t)] \in Whitespace THEN rstrip(SubSeq(t, 1, Len(t) - 1)) ELSE t

strip(t) == rstrip(lstrip(t))

\* Python truthiness of an optional string
NoneVal == "<None>"
Truthy(s) == s # NoneVal /\ s # ""

(* ------------------------------ identities ----------------------------- *)
Uuids == <<"uuid-1", "uuid-2", "uuid-3", "uuid-4">>
\* the ids generate_job_id returns
Jobs == {Uuids[n] : n \in 1..NumJobs}
\* an id no Create ever returned: it only names a foreign segment in requests
UnknownId == "uuid-0"
\* the ids of the jobs that run side by side
PairJobs == {Uuids[n] : n \in 1..NumPairJobs}
\* every id a record, a task or a request can carry
AllIds == Jobs \cup PairJobs
SegOwners == Jobs \cup {UnknownId}

Digits == <<"0", "1", "2", "3">>

generate_segment_id(job_id, index) == <<job_id, "-seg-", Digits[index + 1]>>

Ext == IF svc = "edge" THEN ".mp3" ELSE ".wav"
MediaType == IF svc = "edge" THEN "audio/mpeg" ELSE "audio/wav"

\* a cache that names a file after the segment's index alone
get_cache_path_by_index(job_id, segment_id) == <<CACHE_DIR>> \o Tail(segment_id) \o <<Ext>>

get_cache_path(job_id, segment_id) == <<CACHE_DIR>> \o segment_id \o <<Ext>>

SegIds == {generate_segment_id(j, i) : j \in SegOwners, i \in 0..MaxSegIndex}
PairSegIds == {generate_segment_id(j, i) : j \in PairJobs, i \in 0..MaxSegIndex}
Paths == {get_cache_path(j, s) : j \in AllIds, s \in SegIds \cup PairSegIds}

(* ------------------------------ records -------------------------------- *)
Absent == [status |-> "absent"]
NoError == "<no error>"
NoFile == -1

\* a create_job that stores the record as already started
PendingRecordStarted(job_id, text, voice) ==
    [job_id |-> job_id, status |-> "processing", text_length |-> Len(text),
     voice |-> voice, segments |-> <<>>, error |-> NoError]

PendingRecord(job_id, text, voice) ==
    [job_id |-> job_id, status |-> "pending", text_length |-> Len(text),
     voice |-> voice, segments |-> <<>>, error |-> NoError]

\* a Create that looks at model_id before voice
ResolveVoiceModelFirst(voice, model_id) ==
    IF Truthy(model_id) THEN model_id
    ELSE IF Truthy(voice) THEN voice
    ELSE DEFAULT_VOICE

\* voice = request.voice or request.model_id or DEFAULT_VOICE
ResolveVoice(voice, model_id) ==
    IF Truthy(voice) THEN voice
    ELSE IF Truthy(model_id) THEN model_id
    ELSE DEFAULT_VOICE

\* the optional request fields voice and model_id, as the requests here
\* send them: absent
VoiceInputs == {NoneVal}
ModelInputs == {NoneVal}

\* the same fields where the choice of voice is the subject: left out, sent
\* empty, or sent with a value
VoiceChoices == {NoneVal, "", "voice-a"}
ModelChoices == {NoneVal, "model-b"}

\* an espeak service that kept the edge service's segment format
SegmentFormatMpeg == "audio/mpeg"

\* the "format" the executor records in the segment
SegmentFormat == IF svc = "edge" THEN "audio/mpeg" ELSE "audio/wav"

Segment(job_id, file_size) ==
    [id |-> generate_segment_id(job_id, 0), index |-> 0, status |-> "completed",
     file_size |-> file_size, format |-> SegmentFormat]

\* an executor that lists the segment as soon as it starts on the job
ProcessingRecordWithSegment(rec) ==
    [rec EXCEPT !.status = "processing", !.segments = <<Segment(rec.job_id, 0)>>]

ProcessingRecord(rec) == [rec EXCEPT !.status = "processing"]

\* an executor that lists the audio as two segments
CompletedRecordTwoSegments(rec, job_id, file_size) ==
    [rec EXCEPT !.status = "completed",
                !.segments = <<Segment(job_id, file_size), Segment(job_id, file_size)>>]

CompletedRecord(rec, job_id, file_size) ==
    [rec EXCEPT !.status = "completed", !.segments = <<Segment(job_id, file_size)>>]

\* a failure path that records no message
FailedRecordNoMessage(rec, msg) == [rec EXCEPT !.status = "failed", !.error = ""]

\* a failure path that puts the job back in the queue state
FailedRecordRequeued(rec, msg) == [rec EXCEPT !.status = "pending", !.error = msg]

FailedRecord(rec, msg) == [rec EXCEPT !.status = "failed", !.error = msg]

SynthesisFailedMsg == "Synthesis failed"
\* str(e) of the exception a failed store command raises
StoreErrorMsg == "Error connecting to redis"

(* ------------------------------ responses ------------------------------ *)
\* op: the endpoint; id: the job id in the path or in the body returned;
\* arg: the request's text or segment id; len: bytes of audio returned
Response(op, id, code, detail, arg, len) ==
    [op |-> op, id |-> id, code |-> code, detail |-> detail, arg |-> arg, len |-> len]
NoResp == Response("none", "", 0, "", <<>>, 0)

\* the optional fields of a Create request's body
Request(voice, model_id) == [voice |-> voice, model_id |-> model_id]
NoReq == Request("", "")

\* no store command of a request handler raised
NoFault == "none"

\* no backend wrapper has been called on its own
\* the store connections one executor run has opened and closed
NoConnection == [opened |-> 0, closed |-> 0]
NoBackend == [fn |-> "none"]

\* (text, voice) as handed to the background task and to the backend
Args(text, voice) == [text |-> text, voice |-> voice]
NoArgs == Args(<<>>, "")

(* ------------------------------ job store ------------------------------ *)
\* a set whose expiry is not the configured window
SetTtlTooLong == JOB_EXPIRY_SECONDS * 24

\* a set that gives the key only half the window
SetTtlHalf == JOB_EXPIRY_SECONDS \div 2

\* r.set(key, json.dumps(job_data), ex=JOB_EXPIRY_SECONDS)
SetTtl == JOB_EXPIRY_SECONDS

StoreSet(job_id, rec) ==
    /\ store' = [store EXCEPT ![job_id] = rec]
    /\ ttl' = [ttl EXCEPT ![job_id] = SetTtl]
    /\ age' = [age EXCEPT ![job_id] = 0]
    /\ written' = [written EXCEPT ![job_id] = rec.status]

Present(job_id) == store[job_id] # Absent

\* an executor's r.set: as StoreSet, and when the key was gone the write
\* brought it back
ExecStoreSet(job_id, rec) ==
    /\ StoreSet(job_id, rec)
    /\ absent_write' = [absent_write EXCEPT ![job_id] =
                            IF Present(job_id) THEN @ ELSE @ \cup {"recreated"}]

\* r.delete(key)
StoreDelete(job_id) ==
    /\ store' = [store EXCEPT ![job_id] = Absent]
    /\ ttl' = [ttl EXCEPT ![job_id] = 0]
    /\ age' = [age EXCEPT ![job_id] = 0]
    /\ UNCHANGED written


IdleDel == [pc |-> "idle", jd |-> Absent]
IdleGsa == [pc |-> "idle", seg |-> <<>>]

Init ==
    /\ svc \in {"edge", "espeak"}
    /\ store = [j \in AllIds |-> Absent]
    /\ ttl = [j \in AllIds |-> 0]
    /\ age = [j \in AllIds |-> 0]
    /\ files = [p \in Paths |-> NoFile]
    /\ pc = [j \in AllIds |-> "idle"]
    /\ jd = [j \in AllIds |-> Absent]
    /\ del = [j \in AllIds |-> [k \in 1..MaxDeleteCalls |-> IdleDel]]
    /\ gsa = [j \in AllIds |-> IdleGsa]
    /\ written = [j \in AllIds |-> "none"]
    /\ tasks = [j \in AllIds |-> 0]
    /\ calls = [j \in AllIds |-> 0]
    /\ targs = [j \in AllIds |-> NoArgs]
    /\ called = [j \in AllIds |-> NoArgs]
    /\ req = NoReq
    /\ fault = NoFault
    /\ backend = NoBackend
    /\ absent_write = [j \in AllIds |-> {}]
    /\ conn = [j \in AllIds |-> NoConnection]
    /\ resp = NoResp

(* ------------------------- synthesis backends -------------------------- *)
RECURSIVE SumSeq(_)
SumSeq(s) == IF s = <<>> THEN 0 ELSE Head(s) + SumSeq(Tail(s))

\* what one call of edge_tts does: the stream fails, or yields these audio
\* chunks (their sizes), and then opening or writing the output file may fail
EdgeRuns ==
    {[err |-> e, chunks |-> c] :
        e \in {"none", "stream", "open", "write"},
        c \in SeqsUpTo(0..MaxAudioLen, MaxChunks)}

\* edge, the body of the try block: (success, file at output_path afterwards,
\* whether an exception left the block)
synthesize_text_with_timing_try(run, old) ==
    IF run.err = "stream" THEN [ok |-> FALSE, file |-> old, raised |-> TRUE]
    ELSE IF run.chunks = <<>> THEN [ok |-> FALSE, file |-> old, raised |-> FALSE]
    ELSE IF run.err = "open" THEN [ok |-> FALSE, file |-> old, raised |-> TRUE]
    ELSE IF run.err = "write" THEN [ok |-> FALSE, file |-> 0, raised |-> TRUE]
    ELSE [ok |-> TRUE, file |-> SumSeq(run.chunks), raised |-> FALSE]

\* edge: try ... except Exception: return False, []
synthesize_text_with_timing(run, old) ==
    LET out == synthesize_text_with_timing_try(run, old)
    IN  IF out.raised THEN [ok |-> FALSE, file |-> out.file, raised |-> FALSE] ELSE out

\* what one run of espeak-ng does: subprocess.run raises (timeout, exec
\* error) or returns a code, and leaves this file at the -w path
EspeakRuns ==
    {[err |-> e, rc |-> c, out |-> o] :
        e \in {"none", "timeout"}, c \in {0, 1}, o \in {NoFile} \cup (0..MaxAudioLen)}

\* espeak, the body of the try block: (success, file at output_path
\* afterwards, whether an exception left the block)
synthesize_text_try(run, old) ==
    LET file == IF run.out = NoFile THEN old ELSE run.out
    IN  IF run.err # "none" THEN [ok |-> FALSE, file |-> file, raised |-> TRUE]
        ELSE IF run.rc # 0 THEN [ok |-> FALSE, file |-> file, raised |-> FALSE]
        ELSE [ok |-> file # NoFile /\ file > 0, file |-> file, raised |-> FALSE]

\* espeak: try ... except subprocess.TimeoutExpired / except Exception: return False
synthesize_text(run, old) ==
    LET out == synthesize_text_try(run, old)
    IN  IF out.raised THEN [ok |-> FALSE, file |-> out.file, raised |-> FALSE] ELSE out

BackendRuns == IF svc = "edge" THEN EdgeRuns ELSE EspeakRuns
Synthesize(run, old) ==
    IF svc = "edge" THEN synthesize_text_with_timing(run, old) ELSE synthesize_text(run, old)

(* ------------------------------ GPU worker ----------------------------- *)
\* request["text"]: a string, a value that is not a string, or no such key
Str(chars) == [kind |-> "str", chars |-> chars]
NotAString == [kind |-> "other", chars |-> <<>>]
MissingText == [kind |-> "missing", chars |-> <<>>]
\* a voice sample whose base64 padding is wrong
BadBase64 == "<bad base64>"

WorkerTexts ==
    {MissingText, NotAString} \cup {Str(t) : t \in SeqsUpTo({"a"}, MaxWorkerTextLen + 1)}
\* request["voice"]: key missing, empty, a sample, a broken sample
WorkerVoices == {NoneVal, "", "sample", BadBase64}
WorkerRequests == {[text |-> t, voice |-> v] : t \in WorkerTexts, v \in WorkerVoices}

\* what the engine does when asked: load_model fails, generate_voice_clone
\* fails, sf.write fails, or WAV bytes of this length come back
WavHeaderLen == 44
EngineRuns ==
    {[err |-> e, audio |-> WavHeaderLen + 2 * n] :
        e \in {"none", "load", "generate", "write"}, n \in 0..MaxAudioLen}

\* synth counts the calls of synthesize() the request has caused
WorkerError(msg) ==
    [status |-> "error", error |-> msg, audio |-> 0, raised |-> FALSE, synth |-> 0]
WorkerRaise(msg) ==
    [status |-> "raised", error |-> msg, audio |-> 0, raised |-> TRUE, synth |-> 0]

\* synthesize(text, language, voice_data): the WAV bytes, or the exception
synthesize(text, voice_data, engine) ==
    IF engine.err = "load" THEN WorkerRaise("load_model failed")
    ELSE IF Truthy(voice_data) /\ voice_data = BadBase64 THEN WorkerRaise("Incorrect padding")
    ELSE IF engine.err = "generate" THEN WorkerRaise("generate_voice_clone failed")
    ELSE IF engine.err = "write" THEN WorkerRaise("sf.write failed")
    ELSE [status |-> "success", error |-> NoError, audio |-> engine.audio,
          raised |-> FALSE, synth |-> 0]

\* audio_bytes = self.tts.synthesize(...): the one call site in process
CallSynthesize(text, voice_data, engine) ==
    [synthesize(text, voice_data, engine) EXCEPT !.synth = 1]

\* a Worker.process that synthesizes before it has looked at the text
process_try_unvalidated(request, engine) ==
    IF request.text.kind # "str" THEN WorkerRaise("object has no len()")
    ELSE CallSynthesize(request.text.chars, request.voice, engine)

\* Worker.process, the body of the try block
process_try(request, engine) ==
    LET text == IF request.text = MissingText THEN Str(<<>>) ELSE request.text
    IN  IF text = Str(<<>>) THEN WorkerError("No text provided")
        ELSE IF text.kind # "str" THEN WorkerRaise("object has no len()")
        ELSE IF Len(text.chars) > MaxWorkerTextLen THEN WorkerError("Text too long")
        ELSE CallSynthesize(text.chars, request.voice, engine)

\* a Worker.process without its except clause
process_uncaught(request, engine) == process_try(request, engine)

\* Worker.process: try ... except Exception as e: return {"status": "error", ...}
process(request, engine) ==
    LET out == process_try(request, engine)
    IN  IF out.raised THEN [WorkerError(out.error) EXCEPT !.synth = out.synth] ELSE out

(* ------------------------------ Bark worker ---------------------------- *)
\* the body of a POST /synthesize: JSON with a "text", or bytes json.loads
\* rejects
MalformedBody == [kind |-> "malformed", chars |-> <<>>]
BarkTexts == WorkerTexts \cup {MalformedBody}
\* request["voice"]: key missing, a friendly name, a v2/ preset, another value
BarkVoices == {NoneVal, "narrator", "v2/en_speaker_3", "other"}
BarkRequests == {[text |-> t, voice |-> v] : t \in BarkTexts, v \in BarkVoices}

\* what do_POST has sent when it returns, or the exception that left it
BarkResponse(code, out) ==
    [code |-> code, status |-> out.status, error |-> out.error, audio |-> out.audio,
     raised |-> out.raised, synth |-> out.synth]

\* bark-worker's synthesize(text, voice): load_bark, generate_audio, sf.write
bark_synthesize(text, voice, engine) ==
    IF engine.err = "load" THEN WorkerRaise("load_bark failed")
    ELSE IF engine.err = "generate" THEN WorkerRaise("generate_audio failed")
    ELSE IF engine.err = "write" THEN WorkerRaise("sf.write failed")
    ELSE [status |-> "success", error |-> NoError, audio |-> engine.audio,
          raised |-> FALSE, synth |-> 0]

\* BarkHandler.do_POST on /synthesize, the body of the try block
do_POST_try(request, engine) ==
    IF request.text = MalformedBody
    THEN BarkResponse(0, WorkerRaise("Expecting value"))
    ELSE LET text == IF request.text = MissingText THEN Str(<<>>) ELSE request.text
         IN  IF text = Str(<<>>) THEN BarkResponse(400, WorkerError("No text provided"))
             ELSE IF text.kind # "str"
                  THEN BarkResponse(0, WorkerRaise("object has no len()"))
             ELSE IF Len(text.chars) > MaxWorkerTextLen
                  THEN BarkResponse(400, WorkerError("Text too long"))
             ELSE LET out == [bark_synthesize(text.chars, request.voice, engine)
                                 EXCEPT !.synth = 1]
                  IN  BarkResponse(IF out.raised THEN 0 ELSE 200, out)

\* BarkHandler.do_POST: try ... except Exception as e: send_response(500)
do_POST(request, engine) ==
    LET out == do_POST_try(request, engine)
    IN  IF out.raised
        THEN BarkResponse(500, [WorkerError(out.error) EXCEPT !.synth = out.synth])
        ELSE out

(* ------------------------ the wrappers on their own -------------------- *)
OldFiles == {NoFile} \cup (0..MaxAudioLen)

CallEdge ==
    /\ \E run \in EdgeRuns, old \in OldFiles :
          backend' = [fn |-> "synthesize_text_with_timing", run |-> run, old |-> old,
                      result |-> synthesize_text_with_timing(run, old)]
    /\ UNCHANGED <<conn, svc, store, ttl, age, files, pc, jd, del, gsa, written, tasks, calls,
                   targs, called, req, fault, absent_write, resp>>

CallEspeak ==
    /\ \E run \in EspeakRuns, old \in OldFiles :
          backend' = [fn |-> "synthesize_text", run |-> run, old |-> old,
                      result |-> synthesize_text(run, old)]
    /\ UNCHANGED <<conn, svc, store, ttl, age, files, pc, jd, del, gsa, written, tasks, calls,
                   targs, called, req, fault, absent_write, resp>>

CallWorker ==
    /\ \E request \in WorkerRequests, engine \in EngineRuns :
          backend' = [fn |-> "process", request |-> request, engine |-> engine,
                      result |-> process(request, engine)]
    /\ UNCHANGED <<conn, svc, store, ttl, age, files, pc, jd, del, gsa, written, tasks, calls,
                   targs, called, req, fault, absent_write, resp>>

CallBark ==
    /\ \E request \in BarkRequests, engine \in EngineRuns :
          backend' = [fn |-> "do_POST", request |-> request, engine |-> engine,
                      result |-> do_POST(request, engine)]
    /\ UNCHANGED <<conn, svc, store, ttl, age, files, pc, jd, del, gsa, written, tasks, calls,
                   targs, called, req, fault, absent_write, resp>>

BackendNext == CallEdge \/ CallEspeak \/ CallWorker \/ CallBark

BackendSpec == Init /\ [][BackendNext]_vars

(* ------------------------------- Create -------------------------------- *)
\* a validation that forgets strip()
IsEmpty(text) == text = <<>>

IsBlank(text) == text = <<>> \/ strip(text) = <<>>

CreateInvalid(text) ==
    /\ IsBlank(text)
    /\ resp' = Response("create", "", 400, "Text is required", text, 0)
    /\ \E voice \in VoiceInputs, model_id \in ModelInputs : req' = Request(voice, model_id)
    /\ fault' = NoFault
    /\ UNCHANGED <<conn, svc, backend, absent_write, targs, called, tasks, calls, store, ttl, age,
                   files, pc, jd, del, gsa, written>>

\* a Create that hands the job to the executor before it stores the record
CreateStoreFailsTaskStarted(text) ==
    /\ ~IsBlank(text)
    /\ \E job_id \in Jobs :
          /\ pc[job_id] = "idle"
          /\ pc' = [pc EXCEPT ![job_id] = "queued"]
          /\ tasks' = [tasks EXCEPT ![job_id] = @ + 1]
          /\ targs' = [targs EXCEPT ![job_id] = Args(strip(text), DEFAULT_VOICE)]
    /\ resp' = Response("create", "", 500, StoreErrorMsg, text, 0)
    /\ req' = Request(NoneVal, NoneVal)
    /\ fault' = "set"
    /\ UNCHANGED <<conn, svc, backend, absent_write, called, calls, store, ttl, age, files, jd, del,
                   gsa, written>>

\* store_job raises: the request ends in a server error before add_task
CreateStoreFails(text) ==
    /\ ~IsBlank(text)
    /\ resp' = Response("create", "", 500, StoreErrorMsg, text, 0)
    /\ \E voice \in VoiceInputs, model_id \in ModelInputs : req' = Request(voice, model_id)
    /\ fault' = "set"
    /\ UNCHANGED <<conn, svc, backend, absent_write, targs, called, tasks, calls, store, ttl, age,
                   files, pc, jd, del, gsa, written>>

CreateJob(job_id, text, voice, model_id) ==
    /\ ~IsBlank(text)
    /\ pc[job_id] = "idle"
    /\ StoreSet(job_id, PendingRecord(job_id, text, ResolveVoice(voice, model_id)))
    /\ pc' = [pc EXCEPT ![job_id] = "queued"]
    /\ tasks' = [tasks EXCEPT ![job_id] = @ + 1]
    /\ targs' = [targs EXCEPT ![job_id] = Args(strip(text), ResolveVoice(voice, model_id))]
    /\ resp' = Response("create", job_id, 200, "pending", text, 0)
    /\ req' = Request(voice, model_id)
    /\ fault' = NoFault
    /\ UNCHANGED <<conn, svc, backend, absent_write, called, calls, files, jd, del, gsa>>

create_job ==
    \E text \in Texts :
        \/ CreateInvalid(text)
        \/ CreateStoreFails(text)
        \/ \E job_id \in Jobs, voice \in VoiceInputs, model_id \in ModelInputs :
               CreateJob(job_id, text, voice, model_id)

(* ------------------------------ executor ------------------------------- *)
\* data = await r.get(key); if not data: return; job_data["status"] = "processing"
\* an executor that works from the arguments of its task when it finds no
\* record
ExecGetUnchecked(job_id) ==
    /\ pc[job_id] = "queued"
    /\ jd' = [jd EXCEPT ![job_id] =
                IF Present(job_id)
                THEN ProcessingRecord(store[job_id])
                ELSE PendingRecordStarted(job_id, targs[job_id].text, targs[job_id].voice)]
    /\ pc' = [pc EXCEPT ![job_id] = "setproc"]
    /\ resp' = NoResp
    /\ req' = NoReq
    /\ fault' = NoFault
    /\ UNCHANGED <<svc, backend, absent_write, targs, called, tasks, calls, store, ttl, age, files,
                   del, gsa, written>>

ExecGet(job_id) ==
    /\ pc[job_id] = "queued"
    /\ \/ /\ pc' = [pc EXCEPT ![job_id] = "hget"]
          /\ UNCHANGED jd
       \/ /\ ~Present(job_id)
          /\ pc' = [pc EXCEPT ![job_id] = "done"]
          /\ UNCHANGED jd
       \/ /\ Present(job_id)
          /\ jd' = [jd EXCEPT ![job_id] = ProcessingRecord(store[job_id])]
          /\ pc' = [pc EXCEPT ![job_id] = "setproc"]
    /\ resp' = NoResp
    /\ req' = NoReq
    /\ fault' = NoFault
    /\ UNCHANGED <<svc, backend, absent_write, targs, called, tasks, calls, store, ttl, age,
                   files, del, gsa, written>>

\* an executor that goes on to the backend without storing "processing"
ExecSkipProcessing(job_id) ==
    /\ pc[job_id] = "setproc"
    /\ pc' = [pc EXCEPT ![job_id] = "synth"]
    /\ resp' = NoResp
    /\ req' = NoReq
    /\ fault' = NoFault
    /\ UNCHANGED <<svc, backend, absent_write, targs, called, tasks, calls, store, ttl, age,
                   files, jd, del, gsa, written>>

\* await r.set(key, json.dumps(job_data), ex=JOB_EXPIRY_SECONDS)
ExecSetProcessing(job_id) ==
    /\ pc[job_id] = "setproc"
    /\ \/ /\ pc' = [pc EXCEPT ![job_id] = "hget"]
          /\ UNCHANGED <<store, ttl, age, written, absent_write>>
       \/ /\ ExecStoreSet(job_id, jd[job_id])
          /\ pc' = [pc EXCEPT ![job_id] = "synth"]
    /\ resp' = NoResp
    /\ req' = NoReq
    /\ fault' = NoFault
    /\ UNCHANGED <<svc, backend, targs, called, tasks, calls, files, jd, del, gsa>>

\* an executor that publishes no outcome: the record stays as it was
ResultRecordStillProcessing(rec, job_id, result) == rec

\* an executor that publishes the segment whatever the backend returned
ResultRecordUnchecked(rec, job_id, result) ==
    CompletedRecord(rec, job_id, IF result.file = NoFile THEN 0 ELSE result.file)

\* the record the executor builds from the backend's result
ResultRecord(rec, job_id, result) ==
    IF result.ok /\ result.file # NoFile
    THEN CompletedRecord(rec, job_id, result.file)
    ELSE FailedRecord(rec, SynthesisFailedMsg)

\* an executor that calls the backend again when it reported failure
RetryOnFailure(result) == IF result.ok THEN "final" ELSE "synth"

\* where the executor goes after the backend call: on to the final write,
\* whatever the call returned
AfterSynthesize(result) == "final"

\* job_data.get("voice", DEFAULT_VOICE): the voice the executor hands the backend
BackendVoice(job_data) == job_data.voice

\* the backend call, then "if success and output_path.exists()"
ExecSynthesize(job_id) ==
    /\ pc[job_id] = "synth"
    /\ \E run \in BackendRuns :
        LET output_path == get_cache_path(job_id, generate_segment_id(job_id, 0))
            result == Synthesize(run, files[output_path])
        IN  /\ files' = [files EXCEPT ![output_path] = result.file]
            /\ jd' = [jd EXCEPT ![job_id] =
                        IF result.raised THEN @ ELSE ResultRecord(@, job_id, result)]
            /\ pc' = [pc EXCEPT ![job_id] =
                        IF result.raised THEN "hget" ELSE AfterSynthesize(result)]
    /\ calls' = [calls EXCEPT ![job_id] = @ + 1]
    /\ called' = [called EXCEPT ![job_id] = Args(targs[job_id].text, BackendVoice(jd[job_id]))]
    /\ resp' = NoResp
    /\ req' = NoReq
    /\ fault' = NoFault
    /\ UNCHANGED <<svc, backend, absent_write, targs, tasks, store, ttl, age, del, gsa, written>>

\* the final await r.set(...)
ExecSetFinal(job_id) ==
    /\ pc[job_id] = "final"
    /\ \/ /\ pc' = [pc EXCEPT ![job_id] = "hget"]
          /\ UNCHANGED <<store, ttl, age, written, absent_write>>
       \/ /\ ExecStoreSet(job_id, jd[job_id])
          /\ pc' = [pc EXCEPT ![job_id] = "done"]
    /\ resp' = NoResp
    /\ req' = NoReq
    /\ fault' = NoFault
    /\ UNCHANGED <<svc, backend, targs, called, tasks, calls, files, jd, del, gsa>>

\* except Exception as e: data = await r.get(key); if data: ...
HandlerGet(job_id) ==
    /\ pc[job_id] = "hget"
    /\ \/ /\ pc' = [pc EXCEPT ![job_id] = "done"]
          /\ UNCHANGED <<jd, absent_write>>
       \/ /\ ~Present(job_id)
          /\ pc' = [pc EXCEPT ![job_id] = "done"]
          /\ absent_write' = [absent_write EXCEPT ![job_id] = @ \cup {"skipped"}]
          /\ UNCHANGED jd
       \/ /\ Present(job_id)
          /\ jd' = [jd EXCEPT ![job_id] = FailedRecord(store[job_id], StoreErrorMsg)]
          /\ pc' = [pc EXCEPT ![job_id] = "hset"]
          /\ UNCHANGED absent_write
    /\ resp' = NoResp
    /\ req' = NoReq
    /\ fault' = NoFault
    /\ UNCHANGED <<svc, backend, targs, called, tasks, calls, store, ttl, age, files, del, gsa,
                   written>>

\* ... await r.set(...) inside the handler; its own failure is swallowed
HandlerSet(job_id) ==
    /\ pc[job_id] = "hset"
    /\ \/ UNCHANGED <<store, ttl, age, written, absent_write>>
       \/ ExecStoreSet(job_id, jd[job_id])
    /\ pc' = [pc EXCEPT ![job_id] = "done"]
    /\ resp' = NoResp
    /\ req' = NoReq
    /\ fault' = NoFault
    /\ UNCHANGED <<svc, backend, targs, called, tasks, calls, files, jd, del, gsa>>

\* r = redis.from_url(REDIS_URL, decode_responses=False)
from_url(c) == [c EXCEPT !.opened = @ + 1]

\* await r.close()
close(c) == [c EXCEPT !.closed = @ + 1]

\* an executor whose r.close() is the last statement of the try block: only
\* a run that got past the final write closes
CloseAtEndOfTry(job_id) ==
    LET c == IF pc[job_id] = "queued" THEN from_url(conn[job_id]) ELSE conn[job_id]
    IN  conn' = [conn EXCEPT ![job_id] =
                    IF pc[job_id] = "final" /\ pc'[job_id] = "done" THEN close(c) ELSE c]

\* the connection of the run: opened before the try block, closed by its
\* finally clause when the run leaves the function, by whichever way
ExecConnection(job_id) ==
    LET c == IF pc[job_id] = "queued" THEN from_url(conn[job_id]) ELSE conn[job_id]
    IN  conn' = [conn EXCEPT ![job_id] = IF pc'[job_id] = "done" THEN close(c) ELSE c]

\* one step of the background task of job_id
ExecutorStep(job_id) ==
    /\ \/ ExecGet(job_id)
       \/ ExecSetProcessing(job_id)
       \/ ExecSynthesize(job_id)
       \/ ExecSetFinal(job_id)
       \/ HandlerGet(job_id)
       \/ HandlerSet(job_id)
    /\ ExecConnection(job_id)

process_job_with_new_redis == \E job_id \in Jobs : ExecutorStep(job_id)

(* ----------------------------- GetStatus ------------------------------- *)
\* a status read that stores the record back, restarting its expiry
get_job_status_touching ==
    \E job_id \in Jobs :
        /\ Present(job_id)
        /\ StoreSet(job_id, store[job_id])
        /\ resp' = Response("status", job_id, 200, store[job_id].status, <<>>, 0)
        /\ req' = NoReq
        /\ fault' = NoFault
        /\ UNCHANGED <<conn, svc, backend, absent_write, targs, called, tasks, calls, files, pc, jd,
                       del, gsa>>

\* a status read that renews the key's time to live (GETEX in place of GET)
GetStatusRefreshing(job_id) ==
    /\ \/ /\ fault' = "get"
          /\ resp' = Response("status", job_id, 500, StoreErrorMsg, <<>>, 0)
          /\ UNCHANGED <<ttl, age>>
       \/ /\ ~Present(job_id)
          /\ fault' = NoFault
          /\ resp' = Response("status", job_id, 404, "Job not found", <<>>, 0)
          /\ UNCHANGED <<ttl, age>>
       \/ /\ Present(job_id)
          /\ fault' = NoFault
          /\ resp' = Response("status", job_id, 200, store[job_id].status, <<>>, 0)
          /\ ttl' = [ttl EXCEPT ![job_id] = SetTtl]
          /\ age' = [age EXCEPT ![job_id] = 0]
    /\ req' = NoReq
    /\ UNCHANGED <<conn, svc, backend, absent_write, targs, called, tasks, calls, store, files, pc, jd,
                   del, gsa, written>>

GetStatus(job_id) ==
    /\ \/ /\ fault' = "get"
          /\ resp' = Response("status", job_id, 500, StoreErrorMsg, <<>>, 0)
       \/ /\ ~Present(job_id)
          /\ fault' = NoFault
          /\ resp' = Response("status", job_id, 404, "Job not found", <<>>, 0)
       \/ /\ Present(job_id)
          /\ fault' = NoFault
          /\ resp' = Response("status", job_id, 200, store[job_id].status, <<>>, 0)
    /\ req' = NoReq
    /\ UNCHANGED <<conn, svc, backend, absent_write, targs, called, tasks, calls, store, ttl, age,
                   files, pc, jd, del, gsa, written>>

get_job_status == \E job_id \in Jobs : GetStatus(job_id)

(* --------------------------- GetSegmentAudio --------------------------- *)
SegmentIdsOf(rec) == {rec.segments[i].id : i \in 1..Len(rec.segments)}

\* the same checks with the segment looked up before the status
GsaDecisionSegmentFirst(rec, segment_id) ==
    IF rec = Absent THEN "job_not_found"
    ELSE IF segment_id \notin {rec.segments[i].id : i \in 1..Len(rec.segments)}
         THEN "segment_not_found"
    ELSE IF rec.status # "completed" THEN "invalid_state"
    ELSE "check_file"

\* the same checks without the search of the record's segment list
GsaDecisionAnySegment(rec, segment_id) ==
    IF rec = Absent THEN "job_not_found"
    ELSE IF rec.status # "completed" THEN "invalid_state"
    ELSE "check_file"

\* the checks get_segment_audio makes on the record it read, in its order
GsaDecision(rec, segment_id) ==
    IF rec = Absent THEN "job_not_found"
    ELSE IF rec.status # "completed" THEN "invalid_state"
    ELSE IF segment_id \notin SegmentIdsOf(rec) THEN "segment_not_found"
    ELSE "check_file"

\* job_data = await get_job(r, job_id), and the checks made on job_data
GsaRead(job_id, segment_id) ==
    /\ gsa[job_id].pc = "idle"
    /\ \/ /\ fault' = "get"
          /\ resp' = Response("audio", job_id, 500, StoreErrorMsg, <<>>, 0)
          /\ UNCHANGED gsa
       \/ LET rec == store[job_id]
              decision == GsaDecision(rec, segment_id)
          IN  /\ fault' = NoFault
              /\ CASE decision = "job_not_found" ->
                         /\ resp' = Response("audio", job_id, 404, "Job not found", segment_id, 0)
                         /\ UNCHANGED gsa
                     [] decision = "invalid_state" ->
                         /\ resp' = Response("audio", job_id, 400, rec.status, segment_id, 0)
                         /\ UNCHANGED gsa
                     [] decision = "segment_not_found" ->
                         /\ resp' = Response("audio", job_id, 404, "Segment not found", segment_id, 0)
                         /\ UNCHANGED gsa
                     [] OTHER ->
                         /\ gsa' = [gsa EXCEPT ![job_id] = [pc |-> "file", seg |-> segment_id]]
                         /\ resp' = NoResp
    /\ req' = NoReq
    /\ UNCHANGED <<conn, svc, backend, absent_write, targs, called, tasks, calls, store, ttl, age,
                   files, pc, jd, del, written>>

\* audio_path = get_cache_path(...); if not audio_path.exists(): 404; FileResponse
GsaFile(job_id) ==
    /\ gsa[job_id].pc = "file"
    /\ LET segment_id == gsa[job_id].seg
           audio_path == get_cache_path(job_id, segment_id)
       IN  resp' = IF files[audio_path] = NoFile
                   THEN Response("audio", job_id, 404, "Audio file not found", segment_id, 0)
                   ELSE Response("audio", job_id, 200, MediaType, segment_id, files[audio_path])
    /\ gsa' = [gsa EXCEPT ![job_id] = IdleGsa]
    /\ req' = NoReq
    /\ fault' = NoFault
    /\ UNCHANGED <<conn, svc, backend, absent_write, targs, called, tasks, calls, store, ttl, age,
                   files, pc, jd, del, written>>

get_segment_audio ==
    \E job_id \in Jobs :
        \/ \E segment_id \in SegIds : GsaRead(job_id, segment_id)
        \/ GsaFile(job_id)

(* ------------------------------- Delete -------------------------------- *)
\* job_data = await get_job(r, job_id); if not job_data: 404
DeleteRead(job_id, k) ==
    /\ del[job_id][k].pc = "idle"
    /\ IF k = 1 THEN TRUE ELSE del[job_id][k - 1].pc # "idle"
    /\ \/ /\ fault' = "get"
          /\ resp' = Response("delete", job_id, 500, StoreErrorMsg, <<>>, 0)
          /\ UNCHANGED del
       \/ /\ ~Present(job_id)
          /\ fault' = NoFault
          /\ resp' = Response("delete", job_id, 404, "Job not found", <<>>, 0)
          /\ UNCHANGED del
       \/ /\ Present(job_id)
          /\ fault' = NoFault
          /\ del' = [del EXCEPT ![job_id][k] = [pc |-> "unlink", jd |-> store[job_id]]]
          /\ resp' = NoResp
    /\ req' = NoReq
    /\ UNCHANGED <<conn, svc, backend, absent_write, targs, called, tasks, calls, store, ttl, age,
                   files, pc, jd, gsa, written>>

\* Path.unlink(): raises FileNotFoundError when the file is not there
unlink(fs, path) ==
    IF fs[path] = NoFile
    THEN [files |-> fs, raised |-> TRUE]
    ELSE [files |-> [fs EXCEPT ![path] = NoFile], raised |-> FALSE]

\* a delete_job that leaves the files alone
RemoveNothing(fs, path) == [files |-> fs, raised |-> FALSE]

\* a delete_job that unlinks without looking
UnlinkUnchecked(fs, path) == unlink(fs, path)

\* if audio_path.exists(): audio_path.unlink()
RemoveIfExists(fs, path) ==
    IF fs[path] # NoFile THEN unlink(fs, path) ELSE [files |-> fs, raised |-> FALSE]

\* for seg in job_data.get("segments", []): ... over segments i..Len; stops at
\* the first exception
RECURSIVE delete_files(_, _, _, _)
delete_files(fs, job_id, segments, i) ==
    IF i > Len(segments) THEN [files |-> fs, raised |-> FALSE]
    ELSE LET r == RemoveIfExists(fs, get_cache_path(job_id, segments[i].id))
         IN  IF r.raised THEN r ELSE delete_files(r.files, job_id, segments, i + 1)

FileErrorMsg == "No such file or directory"

\* the loop over job_data["segments"], run when the handler resumes
DeleteUnlink(job_id, k) ==
    /\ del[job_id][k].pc = "unlink"
    /\ LET r == delete_files(files, job_id, del[job_id][k].jd.segments, 1)
       IN  /\ files' = r.files
           /\ IF r.raised
              THEN /\ del' = [del EXCEPT ![job_id][k].pc = "error"]
                   /\ resp' = Response("delete", job_id, 500, FileErrorMsg, <<>>, 0)
              ELSE /\ del' = [del EXCEPT ![job_id][k].pc = "delete"]
                   /\ resp' = NoResp
    /\ req' = NoReq
    /\ fault' = NoFault
    /\ UNCHANGED <<conn, svc, backend, absent_write, targs, called, tasks, calls, store, ttl, age, pc,
                   jd, gsa, written>>

\* await r.delete(key); return {"message": ...}
DeleteRecord(job_id, k) ==
    /\ del[job_id][k].pc = "delete"
    /\ \/ /\ fault' = "delete"
          /\ del' = [del EXCEPT ![job_id][k].pc = "error"]
          /\ resp' = Response("delete", job_id, 500, StoreErrorMsg, <<>>, 0)
          /\ UNCHANGED <<store, ttl, age, written>>
       \/ /\ StoreDelete(job_id)
          /\ fault' = NoFault
          /\ del' = [del EXCEPT ![job_id][k].pc = "ok"]
          /\ resp' = Response("delete", job_id, 200, "Job deleted successfully", <<>>, 0)
    /\ req' = NoReq
    /\ UNCHANGED <<conn, svc, backend, absent_write, targs, called, tasks, calls, files, pc, jd, gsa>>

delete_job ==
    \E job_id \in Jobs, k \in 1..MaxDeleteCalls :
        \/ DeleteRead(job_id, k)
        \/ DeleteUnlink(job_id, k)
        \/ DeleteRecord(job_id, k)

(* ------------------------------- expiry -------------------------------- *)
\* time passing in a service with a watchdog: a record that has been
\* processing for a whole step is marked failed
TickWithSweep ==
    /\ \E j \in AllIds : Present(j)
    /\ LET expired(j) == Present(j) /\ ttl[j] - TickStep <= 0
           overdue(j) == Present(j) /\ store[j].status = "processing"
       IN  /\ store' = [j \in AllIds |->
                          IF expired(j) THEN Absent
                          ELSE IF overdue(j) THEN FailedRecord(store[j], "Timed out")
                          ELSE store[j]]
           /\ ttl' = [j \in AllIds |->
                        IF Present(j) /\ ~expired(j) THEN ttl[j] - TickStep ELSE 0]
           /\ age' = [j \in AllIds |->
                        IF Present(j) /\ ~expired(j) THEN age[j] + TickStep ELSE 0]
    /\ resp' = NoResp
    /\ req' = NoReq
    /\ fault' = NoFault
    /\ UNCHANGED <<conn, svc, backend, absent_write, targs, called, tasks, calls, files, pc, jd, del, gsa,
                   written>>

\* TickStep seconds pass: Redis drops every key whose time has run out
Tick ==
    /\ \E j \in AllIds : Present(j)
    /\ LET expired(j) == Present(j) /\ ttl[j] - TickStep <= 0
       IN  /\ store' = [j \in AllIds |-> IF expired(j) THEN Absent ELSE store[j]]
           /\ ttl' = [j \in AllIds |->
                        IF Present(j) /\ ~expired(j) THEN ttl[j] - TickStep ELSE 0]
           /\ age' = [j \in AllIds |->
                        IF Present(j) /\ ~expired(j) THEN age[j] + TickStep ELSE 0]
    /\ resp' = NoResp
    /\ req' = NoReq
    /\ fault' = NoFault
    /\ UNCHANGED <<conn, svc, backend, absent_write, targs, called, tasks, calls, files, pc, jd, del,
                   gsa, written>>

Next ==
    \/ create_job
    \/ process_job_with_new_redis
    \/ get_job_status
    \/ get_segment_audio
    \/ delete_job
    \/ Tick

Spec == Init /\ [][Next]_vars

\* process_job_sync runs each background task to its end on a pool thread:
\* an executor that can take a step eventually takes one
FairSpec == Spec /\ \A job_id \in Jobs : WF_vars(ExecutorStep(job_id))

\* two jobs side by side: both are created and processed, the first of them
\* is deleted once, and the clock runs for both
PairNext ==
    \/ \E job_id \in PairJobs :
          \/ CreateJob(job_id, <<"a">>, NoneVal, NoneVal)
          \/ ExecutorStep(job_id)
    \/ \E job_id \in Jobs :
          \/ DeleteRead(job_id, 1)
          \/ DeleteUnlink(job_id, 1)
          \/ DeleteRecord(job_id, 1)
    \/ Tick

PairSpec == Init /\ [][PairNext]_vars

\* one job whose Create request may name a voice, a model id, both or
\* neither; the job is processed, read, deleted once, and expires
VoiceNext ==
    \/ \E job_id \in Jobs, text \in Texts, voice \in VoiceChoices, model_id \in ModelChoices :
          CreateJob(job_id, text, voice, model_id)
    \/ \E job_id \in Jobs :
          \/ ExecutorStep(job_id)
          \/ GetStatus(job_id)
          \/ DeleteRead(job_id, 1)
          \/ DeleteUnlink(job_id, 1)
          \/ DeleteRecord(job_id, 1)
    \/ Tick

VoiceSpec == Init /\ [][VoiceNext]_vars

\* two jobs side by side, and a client that asks for audio under the first
\* job's id, naming segments of either job
AudioNext ==
    \/ \E job_id \in PairJobs :
          \/ CreateJob(job_id, <<"a">>, NoneVal, NoneVal)
          \/ ExecutorStep(job_id)
    \/ \E job_id \in Jobs :
          \/ \E segment_id \in PairSegIds : GsaRead(job_id, segment_id)
          \/ GsaFile(job_id)
    \/ Tick

AudioSpec == Init /\ [][AudioNext]_vars

(* ======================================================================= *)
(* Properties                                                              *)
(* ======================================================================= *)
Terminal == {"completed", "failed"}

StatusRank(s) ==
    CASE s = "none" -> 0
      [] s = "pending" -> 1
      [] s = "processing" -> 2
      [] OTHER -> 3

\* the cache file of a job's only segment
SegPath(j) == get_cache_path(j, generate_segment_id(j, 0))

WhitespaceOnly(t) == \A i \in 1..Len(t) : t[i] \in Whitespace

DeleteDone(j, status) ==
    \E k \in 1..MaxDeleteCalls : del[j][k].pc = "ok" /\ del[j][k].jd.status = status

\* C1: the statuses stored under a job id, and so the statuses its readers are
\* shown, only move forward through pending, processing, completed | failed:
\* no write lowers the status, none changes a terminal status (also when the
\* key was deleted or expired in between), and every read returns the status
\* last written.
C1_StatusMonotonic ==
    [][\A j \in Jobs :
        /\ StatusRank(written'[j]) >= StatusRank(written[j])
        /\ written[j] \in Terminal => written'[j] = written[j]
        /\ store'[j] # Absent => store'[j].status = written'[j]
        /\ (resp'.id = j /\ resp'.op = "status" /\ resp'.code = 200)
              => resp'.detail = written[j]
        /\ (resp'.id = j /\ resp'.op = "audio" /\ resp'.code = 400)
              => resp'.detail = written[j]
      ]_vars

\* a reader is shown failed for a job that was deleted while its executor ran
C1_Witness ==
    \E j \in Jobs :
        /\ resp = Response("status", j, 200, "failed", <<>>, 0)
        /\ \E k \in 1..MaxDeleteCalls : del[j][k].pc = "ok"

\* C2 as stated: whenever the stored status is completed the segment's cache
\* file exists.
C2_CompletedHasFile ==
    \A j \in Jobs :
        (Present(j) /\ store[j].status = "completed") => files[SegPath(j)] # NoFile

\* a Delete of j that read the completed record has run its file removal
DeleteRemovedFiles(j) ==
    \E k \in 1..MaxDeleteCalls :
        del[j][k].pc \in {"delete", "ok", "error"} /\ del[j][k].jd.status = "completed"

\* C2 amended: whenever the stored status is completed and no Delete of the
\* job has yet removed its files, the segment's cache file exists.
C2_CompletedHasFileUntilDelete ==
    \A j \in Jobs :
        (Present(j) /\ store[j].status = "completed" /\ ~DeleteRemovedFiles(j))
            => (files[SegPath(j)] # NoFile /\ store[j].segments[1].file_size = files[SegPath(j)])

\* completed was published, and a segment-audio request found the file
C2_Witness ==
    \E j \in Jobs :
        /\ Present(j) /\ store[j].status = "completed" /\ ~DeleteRemovedFiles(j)
        /\ resp.op = "audio" /\ resp.code = 200 /\ resp.id = j

\* C3: a Create with non-blank text answers 200 (or 500 when the store write
\* fails, and never 400); when it answers 200 the record stored under the
\* returned id is pending, the job is queued for the executor, and nothing of
\* the executor has run: its local data is untouched and no cache file changed.
C3_CreateReturnsPending ==
    [][(resp'.op = "create" /\ ~WhitespaceOnly(resp'.arg)) =>
          /\ resp'.code \in {200, 500}
          /\ resp'.code = 200 =>
                /\ resp'.id \in Jobs
                /\ resp'.detail = "pending"
                /\ store'[resp'.id].status = "pending"
                /\ store'[resp'.id].segments = <<>>
                /\ pc[resp'.id] = "idle" /\ pc'[resp'.id] = "queued"
                /\ jd'[resp'.id] = Absent
                /\ files' = files
      ]_vars

C3_Witness ==
    \E j \in Jobs :
        /\ resp = Response("create", j, 200, "pending", <<"a">>, 0)
        /\ store[j].status = "pending" /\ pc[j] = "queued"

\* C4: a Create whose text is empty or whitespace-only answers 400 with no job
\* id and changes nothing: store, expiry times, cache files, executors.
C4_BlankTextRejected ==
    [][(resp'.op = "create" /\ WhitespaceOnly(resp'.arg)) =>
          /\ resp'.code = 400
          /\ resp'.id = ""
          /\ UNCHANGED <<store, ttl, age, written, files, pc, jd>>
      ]_vars

C4_Witness == resp = Response("create", "", 400, "Text is required", <<" ">>, 0)

\* C5 as stated: of the Delete calls on one job id at most one succeeds.
C5_AtMostOneDeleteSucceeds ==
    \A j \in Jobs : Cardinality({k \in 1..MaxDeleteCalls : del[j][k].pc = "ok"}) <= 1

\* C6: a record that is present was written less than JOB_EXPIRY_SECONDS ago,
\* and a GetStatus, GetSegmentAudio or Delete that finds no record answers
\* 404 "Job not found", whether the id expired or was never created.
C6_ExpiredIsNotFound ==
    [][\A j \in Jobs :
        /\ store'[j] # Absent => age'[j] < JOB_EXPIRY_SECONDS
        /\ (/\ resp'.id = j /\ resp'.op \in {"status", "audio", "delete"}
            /\ resp'.code # 500
            /\ store[j] = Absent /\ gsa[j].pc = "idle" /\ del' = del)
              => (resp'.code = 404 /\ resp'.detail = "Job not found")
      ]_vars

\* the record expired (no Delete ever ran) and GetStatus answered 404
C6_Witness ==
    \E j \in Jobs :
        /\ written[j] # "none" /\ ~Present(j)
        /\ \A k \in 1..MaxDeleteCalls : del[j][k].pc = "idle"
        /\ resp = Response("status", j, 404, "Job not found", <<>>, 0)

\* C7: once a Delete that read the completed record has succeeded, the record
\* and the segment's cache file are gone for good, and every GetStatus and
\* GetSegmentAudio of that id answers 404.
C7_DeletedCompletedIsGone ==
    [][\A j \in Jobs :
        /\ DeleteDone(j, "completed")' =>
              (store'[j] = Absent /\ files'[SegPath(j)] = NoFile)
        /\ (/\ DeleteDone(j, "completed")
            /\ resp'.id = j /\ resp'.op \in {"status", "audio"} /\ resp'.code # 500)
              => resp'.code = 404
      ]_vars

C7_Witness ==
    \E j \in Jobs :
        /\ DeleteDone(j, "completed")
        /\ resp.id = j /\ resp.op = "audio" /\ resp.code = 404

\* C8: a stored failed record carries a non-empty error message and
\* GetSegmentAudio answers 400 for it; and once the backend has reported
\* failure the executor's write shows the job as failed ("Synthesis failed"),
\* unless that store write itself fails.
C8_BackendFailureShown ==
    /\ [][\A j \in Jobs :
            /\ (store'[j] # Absent /\ store'[j].status = "failed")
                  => store'[j].error \notin {NoError, ""}
            /\ (/\ resp'.id = j /\ resp'.op = "audio" /\ resp'.code # 500
                /\ store[j] # Absent /\ store[j].status = "failed")
                  => (resp'.code = 400 /\ resp'.detail = "failed")
         ]_vars
    /\ \A j \in Jobs :
          (pc[j] = "final" /\ jd[j].status = "failed")
            ~> \/ /\ store[j] # Absent
                  /\ store[j].status = "failed"
                  /\ store[j].error = SynthesisFailedMsg
               \/ pc[j] = "hget"

C8_Witness ==
    \E j \in Jobs :
        /\ Present(j) /\ store[j].status = "failed" /\ store[j].error = SynthesisFailedMsg
        /\ resp = Response("audio", j, 400, "failed", generate_segment_id(j, 0), 0)

\* C9: GetSegmentAudio answers, in this order: 404 if the record is absent;
\* 400 if its status is not completed; 404 if the segment id is not in the
\* record; then, for the file looked up when the handler resumes, 404 if it
\* is missing and otherwise 200 with the service's media type and the file's
\* bytes.  It never answers 200 while the record is pending, processing or
\* failed.
C9_GsaDecisionOrder ==
    [][\A j \in Jobs :
        LET rec == store[j]
            seg == resp'.arg
            listed == \E i \in 1..Len(rec.segments) : rec.segments[i].id = seg
        IN  /\ (resp'.id = j /\ resp'.op = "audio" /\ resp'.code # 500) =>
                  /\ gsa[j].pc = "idle" =>
                        /\ rec = Absent =>
                              (resp'.code = 404 /\ resp'.detail = "Job not found")
                        /\ (rec # Absent /\ rec.status # "completed") =>
                              (resp'.code = 400 /\ resp'.detail = rec.status)
                        /\ (rec # Absent /\ rec.status = "completed") =>
                              (resp'.code = 404 /\ resp'.detail = "Segment not found"
                                /\ ~listed)
                  /\ gsa[j].pc = "file" =>
                        LET file == files[get_cache_path(j, seg)]
                        IN  /\ seg = gsa[j].seg
                            /\ file = NoFile =>
                                  (resp'.code = 404 /\ resp'.detail = "Audio file not found")
                            /\ file # NoFile =>
                                  (resp'.code = 200 /\ resp'.detail = MediaType
                                    /\ resp'.len = file)
                  /\ resp'.code = 200 =>
                        ~(rec # Absent /\ rec.status \in {"pending", "processing", "failed"})
            /\ (gsa[j].pc = "idle" /\ gsa'[j].pc = "file") =>
                  /\ rec # Absent /\ rec.status = "completed"
                  /\ \E i \in 1..Len(rec.segments) : rec.segments[i].id = gsa'[j].seg
      ]_vars

\* the record was completed and listed the segment, but the file was gone
C9_Witness ==
    \E j \in Jobs :
        resp = Response("audio", j, 404, "Audio file not found", generate_segment_id(j, 0), 0)

\* C10: a Delete that found the record fails only if a store command fails:
\* it answers 404 only when the record is absent, its file loop never raises
\* (a missing file is skipped) and leaves no file of a listed segment, and it
\* removes the record only after that loop.
C10_DeleteCacheThenRecord ==
    [][\A j \in Jobs :
        /\ (resp'.id = j /\ resp'.op = "delete" /\ resp'.code = 404) => store[j] = Absent
        /\ (resp'.id = j /\ resp'.op = "delete" /\ resp'.code = 500)
              => resp'.detail = StoreErrorMsg
        /\ \A k \in 1..MaxDeleteCalls :
            LET segs == del[j][k].jd.segments
                gone(fs) == \A i \in 1..Len(segs) : fs[get_cache_path(j, segs[i].id)] = NoFile
            IN  /\ (del[j][k].pc = "unlink" /\ del'[j][k].pc # "unlink")
                      => (del'[j][k].pc = "delete" /\ gone(files') /\ store' = store)
                /\ (del[j][k].pc = "delete" /\ del'[j][k].pc = "ok")
                      => (gone(files) /\ store'[j] = Absent /\ resp'.code = 200)
        /\ (store[j] # Absent /\ store'[j] = Absent /\ resp'.op = "delete")
              => \E k \in 1..MaxDeleteCalls : del[j][k].pc = "delete" /\ del'[j][k].pc = "ok"
      ]_vars

\* two overlapping Deletes of a completed job: the second found the file
\* already gone, and both succeeded
C10_Witness ==
    \E j \in Jobs :
        \A k \in 1..2 : del[j][k].pc = "ok" /\ del[j][k].jd.status = "completed"

\* the executor of j has returned
ExecutorReturned(j) == pc[j] = "done"

\* C11 as stated: once the executor has returned, the job's record is not
\* left in pending or processing: whatever failed inside the executor, the
\* record it leaves behind is terminal.
C11_ExecutorLeavesTerminal ==
    \A j \in Jobs :
        (ExecutorReturned(j) /\ Present(j)) => store[j].status \in Terminal

\* C12 as stated: every job whose executor has returned, and every job whose
\* record is completed or failed, has had exactly one backend call.
C12_BackendExactlyOnce ==
    \A j \in Jobs :
        /\ ExecutorReturned(j) => calls[j] = 1
        /\ (Present(j) /\ store[j].status \in Terminal) => calls[j] = 1

\* C12 amended: the backend is called at most once for a job id, and not
\* before the executor has written processing; a record that is completed,
\* or failed with "Synthesis failed", has had exactly one call; a job that
\* became failed without a call carries the message of a failed store
\* command.
C12_BackendAtMostOnce ==
    \A j \in Jobs :
        /\ calls[j] <= 1
        /\ pc[j] \in {"idle", "queued", "setproc", "synth"} => calls[j] = 0
        /\ pc[j] = "final" => calls[j] = 1
        /\ (Present(j) /\ store[j].status = "completed") => calls[j] = 1
        /\ (Present(j) /\ store[j].status = "failed") =>
              IF store[j].error = SynthesisFailedMsg THEN calls[j] = 1
              ELSE store[j].error = StoreErrorMsg

\* the backend failed, the job was published as failed, and the executor
\* returned after that one call
C12_Witness ==
    \E j \in Jobs :
        /\ ExecutorReturned(j) /\ calls[j] = 1
        /\ Present(j) /\ store[j].status = "failed"
        /\ store[j].error = SynthesisFailedMsg

\* C13: create_job adds one background task per job id and no more, so at
\* most one executor ever runs for a job; the record of a job is written by
\* Create once, before anything else, and afterwards only by a store write
\* of that executor, which stores the executor's own job_data; GetStatus and
\* GetSegmentAudio leave the record and its expiry alone.
C13_SingleWriter ==
    [][\A j \in Jobs :
        LET wrote == store'[j] # Absent /\ (store'[j] # store[j] \/ ttl'[j] > ttl[j])
        IN  /\ tasks'[j] <= 1
            /\ tasks'[j] # tasks[j] =>
                  (resp'.op = "create" /\ resp'.id = j /\ pc[j] = "idle" /\ pc'[j] = "queued")
            /\ pc'[j] # pc[j] => tasks'[j] = 1
            /\ wrote =>
                  \/ /\ resp'.op = "create" /\ resp'.id = j /\ resp'.code = 200
                     /\ written[j] = "none" /\ tasks[j] = 0
                  \/ /\ resp' = NoResp /\ tasks[j] = 1
                     /\ pc[j] \in {"setproc", "final", "hset"} /\ pc'[j] # pc[j]
                     /\ store'[j] = jd[j]
            /\ (resp'.op \in {"status", "audio"} /\ resp'.id = j) =>
                  (store'[j] = store[j] /\ ttl'[j] = ttl[j] /\ age'[j] = age[j])
      ]_vars

\* the executor has published completed, the key is half-way to its expiry,
\* and a status read has just returned the record
C13_Witness ==
    \E j \in Jobs :
        /\ tasks[j] = 1 /\ written[j] = "completed"
        /\ Present(j) /\ ttl[j] < JOB_EXPIRY_SECONDS
        /\ resp = Response("status", j, 200, "completed", <<>>, 0)

\* nothing is in flight for j: its executor has not started or has returned,
\* and no Delete or segment-audio request of j is between two of its steps
Quiescent(j) ==
    /\ pc[j] \in {"idle", "done"}
    /\ gsa[j].pc = "idle"
    /\ \A k \in 1..MaxDeleteCalls : del[j][k].pc \in {"idle", "ok", "error"}

\* C14 as stated, read where nothing is in flight for the job: the segment's
\* cache file exists if and only if the job's record is completed; there is
\* no cache file for a job that is pending, processing or failed.
C14_FileIffCompleted ==
    \A j \in Jobs :
        (Quiescent(j) /\ Present(j)) =>
            (files[SegPath(j)] # NoFile <=> store[j].status = "completed")

\* C15 as stated: every record in the store lists exactly one segment.
C15_ExactlyOneSegment ==
    \A j \in Jobs : Present(j) => Len(store[j].segments) = 1

\* C15 amended: a record lists at most one segment: none while it is pending,
\* processing or failed, and exactly one when it is completed, which is
\* segment 0 of that job with status completed.
C15_OneSegmentWhenCompleted ==
    \A j \in Jobs :
        Present(j) =>
            LET segments == store[j].segments
            IN  /\ Len(segments) <= 1
                /\ store[j].status \in {"pending", "processing", "failed"} => segments = <<>>
                /\ store[j].status = "completed" =>
                      /\ Len(segments) = 1
                      /\ segments[1].id = generate_segment_id(j, 0)
                      /\ segments[1].index = 0
                      /\ segments[1].status = "completed"

\* a completed record, with its one segment, has been read by a client
C15_Witness ==
    \E j \in Jobs :
        /\ Present(j) /\ store[j].status = "completed" /\ Len(store[j].segments) = 1
        /\ resp = Response("status", j, 200, "completed", <<>>, 0)

\* some Delete of j has answered 200
DeleteSucceeded(j) == \E k \in 1..MaxDeleteCalls : del[j][k].pc = "ok"

\* C16 as stated: once a Delete of a job has succeeded and nothing is in
\* flight for the job any more, neither its record nor its cache file exists.
C16_DeletedTogether ==
    \A j \in Jobs :
        (DeleteSucceeded(j) /\ Quiescent(j)) =>
            (store[j] = Absent /\ files[SegPath(j)] = NoFile)

\* the record of j was written and has expired: no Delete was ever issued
Evicted(j) ==
    /\ written[j] # "none" /\ ~Present(j)
    /\ \A k \in 1..MaxDeleteCalls : del[j][k].pc = "idle"

\* C17 as stated: a cache file does not outlive its record; when the record
\* has been evicted by expiry and the job's executor has returned, the job's
\* cache file is gone.
C17_NoFileOutlivesRecord ==
    \A j \in Jobs :
        (Evicted(j) /\ Quiescent(j)) => files[SegPath(j)] = NoFile

\* C18: every write of a record (Create's, and the executor's processing,
\* completed and failed writes) leaves the key with the full window of
\* JOB_EXPIRY_SECONDS to live; the time a key has left is the window less the
\* time since its last write, and a key expires only when a full window has
\* passed since that write.
C18_WriteResetsTtl ==
    [][\A j \in Jobs :
        /\ (store'[j] # Absent /\ store'[j] # store[j]) =>
              (ttl'[j] = JOB_EXPIRY_SECONDS /\ age'[j] = 0)
        /\ (resp'.op = "create" /\ resp'.code = 200 /\ resp'.id = j) =>
              ttl'[j] = JOB_EXPIRY_SECONDS
        /\ (pc[j] = "setproc" /\ pc'[j] = "synth") =>
              (store'[j].status = "processing" /\ ttl'[j] = JOB_EXPIRY_SECONDS)
        /\ (pc[j] = "final" /\ pc'[j] = "done") =>
              (store'[j].status \in Terminal /\ ttl'[j] = JOB_EXPIRY_SECONDS)
        /\ store'[j] # Absent =>
              (ttl'[j] > 0 /\ ttl'[j] + age'[j] = JOB_EXPIRY_SECONDS)
        /\ (store[j] # Absent /\ store'[j] = Absent /\ del' = del) =>
              age[j] + TickStep >= JOB_EXPIRY_SECONDS
      ]_vars

\* the executor's terminal write has been read one clock step later: the key
\* has the window less that step left
C18_Witness ==
    \E j \in Jobs :
        /\ ExecutorReturned(j) /\ Present(j) /\ store[j].status \in Terminal
        /\ ttl[j] = JOB_EXPIRY_SECONDS - TickStep /\ age[j] = TickStep
        /\ resp = Response("status", j, 200, store[j].status, <<>>, 0)

BackendContentType == IF svc = "edge" THEN "audio/mpeg" ELSE "audio/wav"

\* the record of j is completed with audio of nonzero length, and no Delete
\* has removed its file
CompletedWithAudio(j) ==
    /\ Present(j) /\ store[j].status = "completed"
    /\ store[j].segments[1].file_size > 0
    /\ ~DeleteRemovedFiles(j)

\* C20: once the backend has succeeded with audio of nonzero length, the
\* executor's final write makes the status completed (unless that store
\* write fails); and for as long as the record is completed, neither expired
\* nor deleted, its segment is '{job id}-seg-0' with the backend's content
\* type as format, and a GetSegmentAudio of that segment passes the record
\* checks and answers 200 with that content type and the file's bytes, more
\* than none.
C20_SuccessScenario ==
    /\ \A j \in Jobs :
          (pc[j] = "final" /\ jd[j].status = "completed" /\ jd[j].segments[1].file_size > 0)
            ~> \/ Present(j) /\ store[j].status = "completed"
               \/ pc[j] = "hget"
    /\ [][\A j \in Jobs :
            CompletedWithAudio(j) =>
                LET seg == store[j].segments[1]
                IN  /\ seg.id = generate_segment_id(j, 0)
                    /\ seg.format = BackendContentType
                    /\ files[SegPath(j)] = seg.file_size
                    /\ (resp'.op = "status" /\ resp'.id = j /\ resp'.code = 200) =>
                          resp'.detail = "completed"
                    /\ (/\ resp'.op = "audio" /\ resp'.id = j /\ resp'.arg = seg.id
                        /\ resp'.code # 500) =>
                          /\ gsa[j].pc = "file"
                          /\ resp'.code = 200
                          /\ resp'.detail = BackendContentType
                          /\ resp'.len = seg.file_size /\ resp'.len > 0
         ]_vars

\* the espeak service has served the WAV audio of a completed job
C20_Witness ==
    \E j \in Jobs :
        /\ svc = "espeak" /\ CompletedWithAudio(j)
        /\ resp = Response("audio", j, 200, "audio/wav", generate_segment_id(j, 0), MaxAudioLen)

(* ---------------------------- job independence ------------------------- *)
\* the step belongs to an operation on job j: its executor, one of its
\* requests, or the Create that made it
StepOf(j) ==
    \/ pc'[j] # pc[j]
    \/ del'[j] # del[j]
    \/ gsa'[j] # gsa[j]
    \/ resp'.id = j

\* what the store and the cache hold for job j
Footprint(j) == <<store[j], ttl[j], age[j], files[SegPath(j)]>>

\* the indices a segment id can carry
PathIndices == 0..(Len(Digits) - 1)

RECURSIVE FirstPresent(_)
FirstPresent(options) ==
    IF Len(options) = 1 \/ Head(options) \notin {NoneVal, ""}
    THEN Head(options)
    ELSE FirstPresent(Tail(options))

\* C22: a successful Create stores, and hands to the background task, the
\* first of the request's voice, its model_id and the default voice that was
\* sent with a value; the voice of the job's record never changes after
\* that; and the voice the executor passes to the backend is that voice.
C22_VoiceResolved ==
    /\ [](\A j \in Jobs : Present(j) => store[j].voice = targs[j].voice)
    /\ [][\A j \in Jobs :
            /\ (resp'.op = "create" /\ resp'.code = 200 /\ resp'.id = j) =>
                  LET voice == FirstPresent(<<req'.voice, req'.model_id, DEFAULT_VOICE>>)
                  IN  /\ Present(j)' /\ store'[j].voice = voice
                      /\ targs'[j].voice = voice
            /\ calls'[j] # calls[j] =>
                  /\ called'[j].voice = targs[j].voice
                  /\ called'[j].text = targs[j].text
         ]_vars

\* a request that sent an empty voice or none, and a model id, was
\* synthesised with the model id as its voice
C22_Witness ==
    \E j \in Jobs :
        /\ calls[j] = 1 /\ called[j] = Args(<<"a">>, "model-b")
        /\ Present(j) /\ store[j].status = "completed" /\ store[j].voice = "model-b"

(* ------------------------------ store failures ------------------------- *)
\* C23: when a job-store command raises inside a request handler, the
\* request is answered with a server error carrying the store's message and
\* the step changes neither store, cache nor executors; a Create whose
\* store write raised returns no job id, leaves no record and starts no
\* executor.
C23_StoreFailurePropagates ==
    [][/\ fault' # NoFault =>
            /\ resp'.code = 500 /\ resp'.detail = StoreErrorMsg
            /\ UNCHANGED <<store, ttl, files, jd, written>>
       /\ (resp'.op = "create" /\ fault' # NoFault) =>
            /\ fault' = "set"
            /\ resp'.id = ""
            /\ UNCHANGED <<store, pc, tasks, targs, calls>>
      ]_vars

\* the store write of the first Create raised: the caller got a server error
\* without a job id, and no record and no background task exist
C23_Witness ==
    /\ fault = "set"
    /\ resp = Response("create", "", 500, StoreErrorMsg, <<"a">>, 0)
    /\ \A j \in Jobs : ~Present(j) /\ pc[j] = "idle" /\ tasks[j] = 0 /\ targs[j] = NoArgs

(* ---------------------------- backend wrappers ------------------------- *)
\* the engine, the output file or the input made the wrapper's work fail
BackendFailed ==
    CASE backend.fn = "synthesize_text_with_timing" -> backend.run.err # "none"
      [] backend.fn = "synthesize_text" -> backend.run.err # "none" \/ backend.run.rc # 0
      [] backend.fn = "process" ->
            \/ backend.request.text \in {MissingText, NotAString, Str(<<>>)}
            \/ backend.engine.err # "none"
            \/ backend.request.voice = BadBase64
            \/ Len(backend.request.text.chars) > MaxWorkerTextLen
      [] OTHER -> FALSE

\* C24: whatever a backend wrapper is called with and whatever fails inside
\* it, no exception leaves it; it returns a value, and when something
\* failed that value is the failure value (False, or status 'error').
C24_WrappersNeverRaise ==
    backend # NoBackend =>
        /\ ~backend.result.raised
        /\ IF backend.fn \in {"process", "do_POST"}
           THEN /\ backend.result.status \in {"success", "error"}
                /\ BackendFailed => backend.result.status = "error"
           ELSE /\ backend.result.ok \in BOOLEAN
                /\ BackendFailed => ~backend.result.ok

\* the worker's engine raised while generating and the request came back
\* with status 'error' and the exception's text
C24_Witness ==
    /\ backend # NoBackend /\ backend.fn = "process"
    /\ backend.request = [text |-> Str(<<"a">>), voice |-> "sample"]
    /\ backend.engine.err = "generate"
    /\ backend.result = [WorkerError("generate_voice_clone failed") EXCEPT !.synth = 1]

(* ----------------------------- terminal write --------------------------- *)
\* the executor of j stores its final record in this step
FinalWrite(j) == pc[j] = "final" /\ pc'[j] = "done"

\* C25: the executor's final write sets completed only when the cache
\* already holds the job's audio and that audio has more than zero bytes;
\* in every other case (the backend failed or returned nothing) the final
\* write sets failed.
C25_CompletedOnlyWithAudio ==
    [][\A j \in Jobs :
          FinalWrite(j) =>
              /\ store'[j].status \in Terminal
              /\ store'[j].status = "completed" =>
                    /\ files[SegPath(j)] # NoFile
                    /\ files[SegPath(j)] > 0
                    /\ store'[j].segments[1].file_size = files[SegPath(j)]
      ]_vars

(* --------------------------- processing comes first --------------------- *)
\* the backend is called for j in this step
BackendInvoked(j) == calls'[j] # calls[j]

\* the status of j's record is written anew in this step
StatusWritten(j, status) == written'[j] = status /\ written[j] # status

\* C26 as stated: the backend is invoked only when the last write to the
\* job's record was the executor's "processing", and a terminal status is
\* never written over a record whose last written status is still "pending".
C26_ProcessingBeforeTerminal ==
    [][\A j \in Jobs :
          /\ BackendInvoked(j) => written[j] = "processing"
          /\ (\E t \in Terminal : StatusWritten(j, t)) => written[j] = "processing"
      ]_vars

\* C26 as the executor keeps it: the backend is invoked only after the
\* executor's write of "processing" took effect, and completed is only ever
\* written over "processing"; failed is written over "pending" only by the
\* executor's exception handler, after a store command of the executor
\* raised before any backend call, with the store's message as the error.
C26_ProcessingBeforeBackend ==
    [][\A j \in Jobs :
          /\ BackendInvoked(j) => written[j] = "processing"
          /\ StatusWritten(j, "completed") => written[j] = "processing" /\ calls[j] = 1
          /\ StatusWritten(j, "failed") =>
                \/ written[j] = "processing"
                \/ /\ written[j] = "pending"
                   /\ pc[j] = "hset" /\ calls[j] = 0
                   /\ store'[j].error = StoreErrorMsg
      ]_vars

\* the executor's first store command raised and its handler marked the
\* job failed: the record went from pending to failed, the backend was
\* never called
C26_Witness ==
    \E j \in Jobs :
        /\ pc[j] = "done" /\ calls[j] = 0 /\ written[j] = "failed"
        /\ Present(j) /\ store[j].status = "failed" /\ store[j].error = StoreErrorMsg

(* --------------------------- writes to a lost key ----------------------- *)
\* C27: whenever the record of a job is gone at one of the executor's
\* writes (the processing write, the final write, the handler's failed
\* write), the executor does the same thing: it never both brings a
\* record back at one write and leaves the key alone at another.
C27_OneWayOnAbsentKey == \A j \in Jobs : Cardinality(absent_write[j]) <= 1

(* ------------------------- no record at the start ----------------------- *)
\* the executor of j has written nothing yet and is about to read the
\* record: at its start, or in its handler after a store command raised
AtFirstRead(j) == pc[j] = "queued" \/ (pc[j] = "hget" /\ written[j] = "pending" /\ calls[j] = 0)

\* C28: when the executor finds no record at its first read, it returns
\* (at once, or through its exception handler when the read itself raised)
\* and on the way calls no backend, writes no record and creates no file.
C28_NoRecordNoWork ==
    [][\A j \in Jobs :
          (AtFirstRead(j) /\ ~Present(j) /\ pc'[j] # pc[j]) =>
              /\ pc'[j] \in {"done", "hget"}
              /\ pc[j] = "hget" => pc'[j] = "done"
              /\ ~Present(j)'
              /\ UNCHANGED <<store, files, calls, called, written, jd>>
      ]_vars

\* the job was deleted while still pending; its executor ran afterwards and
\* returned: no backend call, no record, no file
C28_Witness ==
    \E j \in Jobs :
        /\ del[j][1].pc = "ok" /\ del[j][1].jd.status = "pending"
        /\ pc[j] = "done" /\ calls[j] = 0 /\ written[j] = "pending"
        /\ ~Present(j) /\ files[SegPath(j)] = NoFile
        /\ absent_write[j] = {}

(* ------------------------------ no watchdog ----------------------------- *)
\* the last status written for j is processing and its executor takes no
\* step here: it has crashed, or its backend call has not returned
StuckInProcessing(j) == written[j] = "processing" /\ pc'[j] = pc[j]

\* a Delete request of j takes a step
DeleteStep(j) == del'[j] # del[j]

\* C29: for as long as the executor of a job whose last written status is
\* processing takes no step, the record, if there is one, says processing
\* and no step changes it; it can only go away, by its time to live running
\* out (or by a client's Delete), and then it stays away. A status read
\* answers processing while the record is there and not found afterwards.
C29_StuckUntilExpiry ==
    [][\A j \in Jobs :
          StuckInProcessing(j) =>
              /\ Present(j) => store[j].status = "processing"
              /\ store'[j] \in {store[j], Absent}
              /\ (Present(j) /\ ~Present(j)') => (ttl[j] <= TickStep \/ DeleteStep(j))
              /\ (resp'.op = "status" /\ resp'.id = j /\ resp'.code # 500) =>
                    IF Present(j)
                    THEN resp'.code = 200 /\ resp'.detail = "processing"
                    ELSE resp'.code = 404
      ]_vars

\* the backend call of a job never returned: its record, still processing,
\* has lived out its whole time to live without any Delete, and a status
\* read now answers not found
C29_Witness ==
    \E j \in Jobs :
        /\ pc[j] = "synth" /\ written[j] = "processing" /\ calls[j] = 0
        /\ \A k \in 1..MaxDeleteCalls : del[j][k].pc = "idle"
        /\ ~Present(j)
        /\ resp = Response("status", j, 404, "Job not found", <<>>, 0)

(* --------------------------- the segment entry -------------------------- *)
\* the segment list a record of j can have, given its status
SegmentsFor(j, rec) ==
    IF rec.status = "completed"
    THEN /\ Len(rec.segments) = 1
         /\ rec.segments[1].index = 0
         /\ rec.segments[1].id = generate_segment_id(j, 0)
         /\ rec.segments[1].status = "completed"
    ELSE rec.segments = <<>>

\* C30: the segment list of a job's record changes in one kind of step
\* only, the store write that makes the record completed, which puts the
\* one segment (index 0, id '{job id}-seg-0', status completed) into a list
\* that was empty; a completed record is not changed by any step, it can
\* only go away; and every record that is written has the segment list of
\* its status.
C30_SegmentWithCompletion ==
    [][\A j \in Jobs :
          /\ Present(j)' => SegmentsFor(j, store'[j])
          /\ (Present(j) /\ Present(j)' /\ store'[j].segments # store[j].segments) =>
                /\ store[j].status = "processing" /\ store[j].segments = <<>>
                /\ store'[j].status = "completed"
                /\ FinalWrite(j)
          /\ (Present(j) /\ store[j].status = "completed") => store'[j] \in {store[j], Absent}
      ]_vars

\* a completed record has kept its segment through half of its time to
\* live and a client has read it
C30_Witness ==
    \E j \in Jobs :
        /\ Present(j) /\ store[j].status = "completed"
        /\ store[j].segments = <<Segment(j, MaxAudioLen)>>
        /\ age[j] = TickStep
        /\ resp = Response("status", j, 200, "completed", <<>>, 0)

(* ------------------------------ reads are reads ------------------------- *)
\* the step is a step of a status read or of a segment-audio read
ReadStep == resp'.op \in {"status", "audio"} \/ gsa' # gsa

\* C31: a step of GetStatus or of GetSegmentAudio, whatever it answers,
\* changes no job record, no key's remaining time to live and no cache
\* file; a record that is polled expires when it would have expired
\* unpolled.
C31_ReadsChangeNothing ==
    [][ReadStep => UNCHANGED <<store, ttl, age, files, written>>]_vars

\* a record was polled with half of its time to live gone, and still has
\* only the other half left
C31_Witness ==
    \E j \in Jobs :
        /\ resp.op = "status" /\ resp.id = j /\ resp.code = 200
        /\ Present(j) /\ age[j] = TickStep
        /\ ttl[j] = JOB_EXPIRY_SECONDS - TickStep

(* --------------------------- whose audio is served ---------------------- *)
\* the segment ids made for job j
OwnSegmentIds(j) == {generate_segment_id(j, i) : i \in PathIndices}

\* C32: a segment-audio request under one job id gets as far as the cache
\* file only for a segment id of that job, and what it then returns is that
\* job's own file; a request that names a segment of another job is never
\* answered with audio, whatever files the other job has in the cache.
C32_OnlyOwnAudio ==
    [][\A j \in Jobs :
          /\ (gsa'[j].pc = "file" /\ gsa[j].pc = "idle") =>
                /\ gsa'[j].seg = generate_segment_id(j, 0)
                /\ gsa'[j].seg \in SegmentIdsOf(store[j])
          /\ (resp'.op = "audio" /\ resp'.id = j /\ resp'.code = 200) =>
                /\ resp'.arg \in OwnSegmentIds(j)
                /\ resp'.len = files[SegPath(j)]
          /\ (resp'.op = "audio" /\ resp'.id = j /\ resp'.arg \notin OwnSegmentIds(j)) =>
                resp'.code # 200
      ]_vars

\* both jobs are completed with their files in the cache, and the request
\* for the second job's segment under the first job's id was refused
C32_Witness ==
    /\ Present("uuid-1") /\ store["uuid-1"].status = "completed"
    /\ Present("uuid-2") /\ store["uuid-2"].status = "completed"
    /\ files[SegPath("uuid-1")] # NoFile /\ files[SegPath("uuid-2")] # NoFile
    /\ resp = Response("audio", "uuid-1", 404, "Segment not found",
                       generate_segment_id("uuid-2", 0), 0)


(* ------------------------------ GPU workers ---------------------------- *)
\* a request of the GPU workers has been processed
WorkerCalled == backend # NoBackend /\ backend.fn \in {"process", "do_POST"}

\* the request carries no text, or more text than the configured maximum
TextRejected ==
    \/ backend.request.text \in {MissingText, Str(<<>>)}
    \/ /\ backend.request.text.kind = "str"
       /\ Len(backend.request.text.chars) > MaxWorkerTextLen

\* the request never reaches the length check: the body is not JSON, or its
\* text is not a string
TextUnreadable == backend.request.text \in {NotAString, MalformedBody}

\* the message of the exception synthesis raises for this request, in the
\* order the engine's steps run; NoError when it raises nothing
SynthesisException ==
    IF backend.engine.err = "load"
    THEN IF backend.fn = "process" THEN "load_model failed" ELSE "load_bark failed"
    ELSE IF backend.fn = "process" /\ backend.request.voice = BadBase64
    THEN "Incorrect padding"
    ELSE IF backend.engine.err = "generate"
    THEN IF backend.fn = "process" THEN "generate_voice_clone failed"
         ELSE "generate_audio failed"
    ELSE IF backend.engine.err = "write" THEN "sf.write failed"
    ELSE NoError

\* C33: for every request the GPU worker returns a result and never
\* raises: status 'error' without a call of synthesis when the text is empty
\* or longer than the maximum, status 'error' with the exception's message
\* when synthesis raises, status 'success' with the audio otherwise; and
\* synthesis is called at most once per request.
C33_WorkerAlwaysAnswers ==
    WorkerCalled =>
        /\ ~backend.result.raised
        /\ backend.result.status \in {"success", "error"}
        /\ backend.result.synth \in {0, 1}
        /\ IF TextRejected
           THEN /\ backend.result.status = "error"
                /\ backend.result.error \in {"No text provided", "Text too long"}
                /\ backend.result.synth = 0
           ELSE IF TextUnreadable
           THEN /\ backend.result.status = "error"
                /\ backend.result.synth = 0
           ELSE IF SynthesisException # NoError
           THEN /\ backend.result.status = "error"
                /\ backend.result.error = SynthesisException
                /\ backend.result.synth = 1
           ELSE /\ backend.result.status = "success"
                /\ backend.result.audio = backend.engine.audio
                /\ backend.result.synth = 1

\* a text one character over the maximum came back as an error although
\* the engine would have produced audio, and synthesis was never called
C33_Witness ==
    /\ WorkerCalled /\ backend.fn = "process"
    /\ backend.request.text = Str([i \in 1..(MaxWorkerTextLen + 1) |-> "a"])
    /\ backend.engine.err = "none"
    /\ backend.result.status = "error" /\ backend.result.error = "Text too long"
    /\ backend.result.synth = 0


(* -------------------------- executor connections ----------------------- *)
\* the executor of j has not begun
ExecutorNotStarted(j) == pc[j] \in {"idle", "queued"}

\* C34: every executor run closes the store connection it opened exactly
\* once on every path (early return because the record is absent, success,
\* synthesis failure, exception): a run opens one connection, keeps it open
\* while it works, has closed it once when it has finished, and never
\* closes it again; so once all executors have finished, no connection of
\* an executor is open.
C34_ConnectionClosedOnce ==
    /\ \A j \in PairJobs :
          /\ conn[j].opened = IF ExecutorNotStarted(j) THEN 0 ELSE 1
          /\ conn[j].closed = IF ExecutorReturned(j) THEN 1 ELSE 0
    /\ (\A j \in PairJobs : ExecutorNotStarted(j) \/ ExecutorReturned(j))
          => \A j \in PairJobs : conn[j].opened = conn[j].closed

\* the run whose final write raised went through the exception handler,
\* which stored failed with the store's message, and has closed its
\* connection
C34_Witness ==
    \E j \in Jobs :
        /\ ExecutorReturned(j) /\ calls[j] = 1
        /\ Present(j) /\ store[j].status = "failed" /\ store[j].error = StoreErrorMsg
        /\ conn[j] = [opened |-> 1, closed |-> 1]

====
